---- MODULE Spec2Model ----
(***************************************************************************)
(* Model of the buddy allocator of src/BuddyAllocator.hpp: the size-class  *)
(* tables, the intrusive per-level free lists, Allocator::allocate,        *)
(* Allocator::deallocate and the Allocation handle.                        *)
(*                                                                         *)
(* Memory is modelled at the granularity the code uses it: the link word   *)
(* at the start of a block (word), the eight list heads (fList), the       *)
(* program break moved by sbrk (brk) and the caller's handles.             *)
(***************************************************************************)
EXTENDS Integers, Sequences, FiniteSets, TLC

(* ---------------------------------------------------------------------- *)
(* Program constants                                                       *)
(* ---------------------------------------------------------------------- *)
maxLevels == 8
minSize == 32

(* ---------------------------------------------------------------------- *)
(* Bounds of the model                                                     *)
(* ---------------------------------------------------------------------- *)
\* number of successful heap growths the operating system grants
MaxGrowths == 2
\* number of Allocation objects the caller holds
NumHandles == 2
\* largest request of the sweep over all sizes (maxSize is 4096)
MaxRequest == 4100

Handles == 1..NumHandles
\* the handles of the specification with one more object than Spec
HandlesThree == 1..(NumHandles + 1)
Levels == 0..(maxLevels - 1)

nullptr == 0
\* (void *)-1, the value sbrk returns on failure
SbrkFailed == -1

(* ---------------------------------------------------------------------- *)
(* Size-class tables                                                       *)
(* ---------------------------------------------------------------------- *)
RECURSIVE LevelSizeLoop(_, _, _)
\* for(int i = 0, sz = minSize; i < maxLevels; ++ i, sz <<= 1) levelSize[i] = sz;
LevelSizeLoop(i, sz, arr) ==
  IF i < maxLevels
    THEN LevelSizeLoop(i + 1, sz * 2, Append(arr, sz))
    ELSE arr

levelSizeSeq == LevelSizeLoop(0, minSize, << >>)

levelSize == [i \in Levels |-> levelSizeSeq[i + 1]]

maxSize == levelSize[maxLevels - 1]

RECURSIVE Shl(_, _)
\* v << k
Shl(v, k) == IF k = 0 THEN v ELSE Shl(v * 2, k - 1)

arrsz == (Shl(minSize, maxLevels - 1) \div 2) + 1

\* the table loop as a slip would have it: if(currSz <= i), so the level
\* steps up at a level size instead of after it
ReverseLookupStepEarly(st, i) ==
  IF st.currSz <= i
    THEN [currSz |-> st.currSz * 2, l |-> st.l + 1, rev |-> Append(st.rev, st.l + 1)]
    ELSE [currSz |-> st.currSz, l |-> st.l, rev |-> Append(st.rev, st.l)]

\* One iteration of the loop that fills the table, on the loop state
\* [currSz, l, rev]:   if(currSz < i) currSz <<= 1, ++l;   rev[i] = l;
ReverseLookupStep(st, i) ==
  IF st.currSz < i
    THEN [currSz |-> st.currSz * 2, l |-> st.l + 1, rev |-> Append(st.rev, st.l + 1)]
    ELSE [currSz |-> st.currSz, l |-> st.l, rev |-> Append(st.rev, st.l)]

RECURSIVE ReverseLookupLoop(_, _, _)
\* for(int currSz = minSize, i = 0, l = 0; i < arrsz; ++ i) { ... }
\* The iterations lo .. hi-1 in order, run as two half ranges so that the
\* evaluation does not nest once per iteration.
ReverseLookupLoop(lo, hi, st) ==
  IF hi <= lo THEN st
  ELSE IF hi = lo + 1 THEN ReverseLookupStep(st, lo)
  ELSE LET mid == (lo + hi) \div 2
           half == ReverseLookupLoop(lo, mid, st)
       IN  \* the first half is finished (l is known) before the second starts
           IF half.l >= 0 THEN ReverseLookupLoop(mid, hi, half) ELSE half

reverseLookupSeq ==
  ReverseLookupLoop(0, arrsz, [currSz |-> minSize, l |-> 0, rev |-> << >>]).rev

\* reverseLookup[i] for the indices 0 .. reverseLookup.size()-1 of the array
reverseLookup == [i \in 0..(arrsz - 1) |-> reverseLookupSeq[i + 1]]

reverseLookupSize == Len(reverseLookupSeq)


(* ---------------------------------------------------------------------- *)
(* Inputs of the model                                                     *)
(* ---------------------------------------------------------------------- *)
\* Values of the program break before the first growth: a multiple of
\* maxSize, one off by minSize and one off by maxSize/2.  sbrk returns the
\* previous break whatever its alignment.
BrkStarts == {2 * maxSize, 2 * maxSize + minSize, 2 * maxSize + (maxSize \div 2)}

\* Requests of Spec: both sides of the table's steps at the low and the
\* high end, and the oversized request.
ReqSizes == {1, minSize, minSize + 1, 2 * minSize + 1,
             maxSize \div 2, (maxSize \div 2) + 2,
             maxSize, maxSize + 1}

\* Requests of SpecThree
ReqSizesThree == {minSize, maxSize \div 2}

\* Requests of SpecMisuse: the lowest level and the top level
ReqSizesMisuse == {minSize, maxSize}

\* What the int one past the end of reverseLookup may hold: a value that is
\* a level, or (BadLevel) a value that is none.
BadLevel == maxLevels
PastEndValues == Levels \cup {BadLevel}

(* ---------------------------------------------------------------------- *)
(* State                                                                   *)
(* ---------------------------------------------------------------------- *)
VARIABLES
  fList,    \* fList[l]: the next field of the head FreeList object of level l
  word,     \* word[a]: the link word (FreeList::next) of the free block at a
  brk,      \* the program break, moved by sbrk
  regions,  \* the addresses sbrk(maxSize) has returned, in order
  handles,  \* the caller's Allocation objects: [memory, size]
  pastEnd,  \* the int one past the end of reverseLookup: << >> until it is
            \* first read, <<v>> from then on (it is a constant of the build)
  status,   \* "running"; "crashed" after an out-of-range level; "hung"
  last,     \* record of the operation that produced this state
  rt        \* progress of an allocate(n); free; allocate(n) sequence

vars == <<fList, word, brk, regions, handles, pastEnd, status, last, rt>>

EmptyHandle == [memory |-> nullptr, size |-> 0]

\* last: op, the handle h (and the source src of a move), the request req,
\* the outcome, the level computed (level) and the level the block was found
\* at or ended at (found), whether sbrk was called (grew) and what it
\* returned (sbrk), whether no handle owned a block before the operation
\* (idle), the block handed out or released (memory, size) and the merges.
NoOp == [op |-> "init", h |-> 0, src |-> 0, req |-> 0, outcome |-> "ok",
         level |-> 0, found |-> 0, grew |-> FALSE, sbrk |-> 0, idle |-> TRUE,
         memory |-> nullptr, size |-> 0, merges |-> << >>]

NoTrip == [stage |-> 0, n |-> 0, addr |-> nullptr]

(* ---------------------------------------------------------------------- *)
(* Bit arithmetic on std::uintptr_t                                        *)
(* ---------------------------------------------------------------------- *)
RECURSIVE BitXor(_, _)
\* a ^ b
BitXor(a, b) ==
  IF a = 0 THEN b
  ELSE IF b = 0 THEN a
  ELSE (((a % 2) + (b % 2)) % 2) + 2 * BitXor(a \div 2, b \div 2)

RECURSIVE BitAndNot(_, _)
\* a & ~b
BitAndNot(a, b) ==
  IF a = 0 THEN 0
  ELSE IF b = 0 THEN a
  ELSE (IF a % 2 = 1 /\ b % 2 = 0 THEN 1 ELSE 0) + 2 * BitAndNot(a \div 2, b \div 2)

(* ---------------------------------------------------------------------- *)
(* The intrusive list.  A FreeList object is either a head, <<"fList", l>>,*)
(* or the first word of a block, <<"heap", a>>.  A store is the pair of    *)
(* the heads and the link words.                                           *)
(* ---------------------------------------------------------------------- *)
HeadCell(l) == <<"fList", l>>
NodeCell(a) == <<"heap", a>>

\* cell->next
NextOf(st, cell) ==
  IF cell[1] = "fList" THEN st.fList[cell[2]] ELSE st.word[cell[2]]

\* cell->next = v
SetNext(st, cell, v) ==
  IF cell[1] = "fList"
    THEN [st EXCEPT !.fList[cell[2]] = v]
    ELSE [st EXCEPT !.word = [a \in (DOMAIN st.word) \cup {cell[2]} |->
                                IF a = cell[2] THEN v ELSE st.word[a]]]

RECURSIVE LastCell(_, _, _)
\* the cell whose next is null, walking from cell
LastCell(st, cell, seen) ==
  LET nxt == NextOf(st, cell)
  IN  IF nxt = nullptr \/ nxt \in seen THEN cell
      ELSE LastCell(st, NodeCell(nxt), seen \cup {nxt})

\* emplace as a slip would have it: the two statements are swapped, so
\* newHead->next is read after next = newHead and the block links to itself
emplaceSwapped(st, cell, v) ==
  LET headSet == SetNext(st, cell, v)
  IN  SetNext(headSet, NodeCell(v), NextOf(headSet, cell))

\* emplace as a slip would have it: the block is linked behind the last
\* node instead of becoming the head
emplaceAtTail(st, cell, v) ==
  LET tail == LastCell(st, cell, {})
      linked == SetNext(st, NodeCell(v), nullptr)
  IN  IF tail = NodeCell(v) THEN linked ELSE SetNext(linked, tail, v)

\* FreeList::emplace(v) on cell
emplace(st, cell, v) ==
  LET linked == SetNext(st, NodeCell(v), NextOf(st, cell))
  IN  SetNext(linked, cell, v)

\* The link words without the one at address a: a block that has left its
\* list is the caller's (or the inside of a merged block) and its first word
\* is no longer a link
Forget(st, a) ==
  [st EXCEPT !.word = [b \in (DOMAIN st.word) \ {a} |-> st.word[b]]]

\* extract as a slip would have it: the head is returned but stays linked
extractKeepsHead(st, cell) ==
  [st |-> st, ptr |-> NextOf(st, cell)]

\* FreeList::extract() on cell: the store after, and the pointer returned
extract(st, cell) ==
  LET old == NextOf(st, cell)
  IN  [st |-> Forget(SetNext(st, cell, NextOf(st, NodeCell(old))), old),
       ptr |-> old]

\* FreeList::empty() on the head of level l
empty(st, l) == st.fList[l] = nullptr

\* The store of the current state
store == [fList |-> fList, word |-> word]

(* ---------------------------------------------------------------------- *)
(* Allocator::allocate                                                     *)
(* ---------------------------------------------------------------------- *)
\* reverseLookup[sz] as the build evaluates it: the table entry, or for the
\* index one past the end the int pe that lies behind the array
reverseLookupAt(sz, pe) ==
  IF sz \in DOMAIN reverseLookup THEN reverseLookup[sz] ELSE pe

\* sz > reverseLookup.size() ? maxLevels - 1 : reverseLookup[sz]
LevelOf(sz, pe) ==
  IF sz > reverseLookupSize THEN maxLevels - 1 ELSE reverseLookupAt(sz, pe)

\* The values the int behind the array may show when LevelOf(sz, _) is
\* evaluated: the one it showed before, or any if this is its first read
PastEndChoices(sz) ==
  IF sz <= reverseLookupSize /\ sz \notin DOMAIN reverseLookup /\ pastEnd = << >>
    THEN PastEndValues
    ELSE IF pastEnd = << >> THEN {BadLevel} ELSE {pastEnd[1]}

\* pastEnd after LevelOf(sz, pe) has been evaluated
PastEndAfter(sz, pe) ==
  IF sz <= reverseLookupSize /\ sz \notin DOMAIN reverseLookup THEN <<pe>> ELSE pastEnd

RECURSIVE FindLevelSkipsTarget(_, _)
\* the scan as a slip would have it: it stops at a non-empty list only above
\* the level it was started at
FindLevelSkipsTarget(st, l) ==
  IF l + 1 < maxLevels
    THEN IF ~empty(st, l + 1) THEN l + 1 ELSE FindLevelSkipsTarget(st, l + 1)
    ELSE maxLevels

RECURSIVE FindLevel(_, _)
\* for(int l = level; l < maxLevels; ++ l) if(!fList[l].empty()) ... break;
\* the level the scan stops at, maxLevels when it runs off the end
FindLevel(st, l) ==
  IF l < maxLevels
    THEN IF ~empty(st, l) THEN l ELSE FindLevel(st, l + 1)
    ELSE maxLevels

RECURSIVE SplitStopsEarly(_, _, _, _)
\* the split loop as a slip would have it: while(--currLevel > level), so
\* the upper half at the target level is never inserted
SplitStopsEarly(st, mem, currLevel, level) ==
  IF currLevel - 1 > level
    THEN SplitStopsEarly(emplace(st, HeadCell(currLevel - 1),
                                 mem + levelSize[currLevel - 1]),
                         mem, currLevel - 1, level)
    ELSE st

RECURSIVE Split(_, _, _, _)
\* while(currLevel --> level) fList[currLevel].emplace(mem + levelSize[currLevel]);
Split(st, mem, currLevel, level) ==
  IF currLevel > level
    THEN Split(emplace(st, HeadCell(currLevel - 1), mem + levelSize[currLevel - 1]),
               mem, currLevel - 1, level)
    ELSE st

\* allocate as a slip would have it: the split loop runs before the test of
\* sbrk's result
AllocateCoreSplitsFirst(st, level, sbrkRet) ==
  LET l == FindLevel(st, level)
      taken == IF l < maxLevels THEN extract(st, HeadCell(l))
                                ELSE [st |-> st, ptr |-> nullptr]
      grew == taken.ptr = nullptr
      mem == IF grew THEN sbrkRet ELSE taken.ptr
      currLevel == IF grew THEN maxLevels - 1 ELSE l
      split == Split(taken.st, mem, currLevel, level)
  IN  IF mem = SbrkFailed
        THEN [ok |-> FALSE, st |-> split, grew |-> grew, found |-> currLevel,
              alloc |-> EmptyHandle]
        ELSE [ok |-> TRUE, st |-> split, grew |-> grew, found |-> currLevel,
              alloc |-> [memory |-> mem, size |-> levelSize[level]]]

\* The body of allocate for a level that is in range; sbrkRet is what
\* sbrk(maxSize) returns if it is called.
AllocateCore(st, level, sbrkRet) ==
  LET l == FindLevel(st, level)
      taken == IF l < maxLevels THEN extract(st, HeadCell(l))
                                ELSE [st |-> st, ptr |-> nullptr]
      grew == taken.ptr = nullptr
      mem == IF grew THEN sbrkRet ELSE taken.ptr
      currLevel == IF grew THEN maxLevels - 1 ELSE l
  IN  IF mem = SbrkFailed
        THEN [ok |-> FALSE, st |-> taken.st, grew |-> grew, found |-> currLevel,
              alloc |-> EmptyHandle]
        ELSE [ok |-> TRUE, st |-> Split(taken.st, mem, currLevel, level),
              grew |-> grew, found |-> currLevel,
              alloc |-> [memory |-> mem, size |-> levelSize[level]]]

(* ---------------------------------------------------------------------- *)
(* Allocator::deallocate                                                   *)
(* ---------------------------------------------------------------------- *)
\* reinterpret_cast<uintptr_t>(alloc.memory) ^ levelSize[lv]
BuddyOf(memory, lv) == BitXor(memory, levelSize[lv])

\* the merged block as a slip would have it: the bit is set instead of
\* cleared, which gives the upper of the two addresses
MergedBlockUpper(memory, lv) ==
  BitAndNot(memory, levelSize[lv]) + levelSize[lv]

\* the merged block as a slip would have it: the address is not masked
MergedBlockUnmasked(memory, lv) == memory

\* reinterpret_cast<uintptr_t>(alloc.memory) & ~levelSize[lv]
MergedBlock(memory, lv) == BitAndNot(memory, levelSize[lv])

RECURSIVE ScanNodes(_, _, _, _)
ScanNodes(st, prev, buddy, visited) ==
  LET nxt == NextOf(st, prev)
  IN  IF nxt = nullptr THEN [hit |-> FALSE, loops |-> FALSE, prev |-> prev]
      ELSE IF nxt = buddy THEN [hit |-> TRUE, loops |-> FALSE, prev |-> prev]
      ELSE IF nxt \in visited THEN [hit |-> FALSE, loops |-> TRUE, prev |-> prev]
      ELSE ScanNodes(st, NodeCell(nxt), buddy, visited \cup {nxt})

\* the scan as a slip would have it: prev starts at the first node, not at
\* the head object, so the first node is never compared with buddy
ScanForPastHead(st, prev, buddy, visited) ==
  LET first == NextOf(st, prev)
  IN  IF first = nullptr THEN [hit |-> FALSE, loops |-> FALSE, prev |-> prev]
      ELSE ScanNodes(st, NodeCell(first), buddy, visited \cup {first})

RECURSIVE ScanFor(_, _, _, _)
\* for(auto prev = &fList[lv]; prev->next != nullptr; prev = prev->next)
\*   if(prev->next == buddy) ...
\* hit: prev->next == buddy at cell prev;  loops: the walk came back to a
\* node it had visited, so the for loop never ends
ScanFor(st, prev, buddy, visited) ==
  LET nxt == NextOf(st, prev)
  IN  IF nxt = nullptr THEN [hit |-> FALSE, loops |-> FALSE, prev |-> prev]
      ELSE IF nxt = buddy THEN [hit |-> TRUE, loops |-> FALSE, prev |-> prev]
      ELSE IF nxt \in visited THEN [hit |-> FALSE, loops |-> TRUE, prev |-> prev]
      ELSE ScanFor(st, NodeCell(nxt), buddy, visited \cup {nxt})

\* the merge loop as a slip would have it: an if, so one merge at most
BubbleOnce(st, alloc, lv, merges) ==
  IF alloc.size # maxSize
    THEN LET buddy == BuddyOf(alloc.memory, lv)
             scan == ScanFor(st, HeadCell(lv), buddy, {})
         IN  IF scan.hit
               THEN [st |-> extract(st, scan.prev).st,
                     alloc |-> [memory |-> MergedBlock(alloc.memory, lv),
                                size |-> alloc.size * 2],
                     lv |-> lv + 1,
                     merges |-> Append(merges, [lv |-> lv, block |-> alloc.memory,
                                                buddy |-> buddy]),
                     hangs |-> scan.loops]
               ELSE [st |-> st, alloc |-> alloc, lv |-> lv, merges |-> merges,
                     hangs |-> scan.loops]
    ELSE [st |-> st, alloc |-> alloc, lv |-> lv, merges |-> merges,
          hangs |-> FALSE]

RECURSIVE Bubble(_, _, _, _)
\* while(alloc.size != maxSize) { ... }  on the store, the handle, lv and
\* the merges done so far
Bubble(st, alloc, lv, merges) ==
  IF alloc.size # maxSize
    THEN LET buddy == BuddyOf(alloc.memory, lv)
             scan == ScanFor(st, HeadCell(lv), buddy, {})
         IN  IF scan.loops
               THEN [st |-> st, alloc |-> alloc, lv |-> lv, merges |-> merges,
                     hangs |-> TRUE]
             ELSE IF scan.hit
               THEN Bubble(extract(st, scan.prev).st,
                           [memory |-> MergedBlock(alloc.memory, lv),
                            size |-> alloc.size * 2],
                           lv + 1,
                           Append(merges, [lv |-> lv, block |-> alloc.memory,
                                           buddy |-> buddy]))
             ELSE [st |-> st, alloc |-> alloc, lv |-> lv, merges |-> merges,
                   hangs |-> FALSE]
    ELSE [st |-> st, alloc |-> alloc, lv |-> lv, merges |-> merges,
          hangs |-> FALSE]

\* deallocate as a slip would have it: lv is not advanced by the merges, so
\* the merged block is put on the list of the level it started at
deallocateAtStartLevel(st, alloc, pe) ==
  IF alloc.memory = nullptr
    THEN [st |-> st, alloc |-> alloc, noop |-> TRUE, hangs |-> FALSE,
          lv |-> 0, start |-> 0, merges |-> << >>]
    ELSE LET lv == LevelOf(alloc.size, pe)
             up == Bubble(st, alloc, lv, << >>)
         IN  [st |-> IF up.hangs THEN up.st
                     ELSE emplace(up.st, HeadCell(lv), up.alloc.memory),
              alloc |-> IF up.hangs THEN up.alloc
                        ELSE [memory |-> nullptr, size |-> 0],
              noop |-> FALSE, hangs |-> up.hangs,
              lv |-> up.lv, start |-> lv, merges |-> up.merges]

\* deallocate as a slip would have it: the Allocation is not cleaned up
deallocateKeepsHandle(st, alloc, pe) ==
  IF alloc.memory = nullptr
    THEN [st |-> st, alloc |-> alloc, noop |-> TRUE, hangs |-> FALSE,
          lv |-> 0, start |-> 0, merges |-> << >>]
    ELSE LET lv == LevelOf(alloc.size, pe)
             up == Bubble(st, alloc, lv, << >>)
         IN  [st |-> IF up.hangs THEN up.st
                     ELSE emplace(up.st, HeadCell(up.lv), up.alloc.memory),
              alloc |-> alloc, noop |-> FALSE, hangs |-> up.hangs,
              lv |-> up.lv, start |-> lv, merges |-> up.merges]

\* deallocate(alloc): the store and the handle after the call; pe is the int
\* behind reverseLookup
deallocate(st, alloc, pe) ==
  IF alloc.memory = nullptr
    THEN [st |-> st, alloc |-> alloc, noop |-> TRUE, hangs |-> FALSE,
          lv |-> 0, start |-> 0, merges |-> << >>]
    ELSE LET lv == LevelOf(alloc.size, pe)
             up == Bubble(st, alloc, lv, << >>)
         IN  IF up.hangs
               THEN [st |-> up.st, alloc |-> up.alloc, noop |-> FALSE,
                     hangs |-> TRUE, lv |-> up.lv, start |-> lv,
                     merges |-> up.merges]
               ELSE [st |-> emplace(up.st, HeadCell(up.lv), up.alloc.memory),
                     alloc |-> [memory |-> nullptr, size |-> 0],
                     noop |-> FALSE, hangs |-> FALSE, lv |-> up.lv, start |-> lv,
                     merges |-> up.merges]

(* ---------------------------------------------------------------------- *)
(* The heap grower                                                         *)
(* ---------------------------------------------------------------------- *)
\* What sbrk(maxSize) may return: the previous break, or (void *)-1.  Once
\* MaxGrowths regions have been granted the break is at its limit and only
\* the failure is left.
SbrkResults ==
  IF Len(regions) < MaxGrowths THEN {brk, SbrkFailed} ELSE {SbrkFailed}

(* ---------------------------------------------------------------------- *)
(* Operations                                                              *)
(* ---------------------------------------------------------------------- *)
\* no handle owns a block
Idle == \A h \in DOMAIN handles : handles[h].memory = nullptr

\* the value of pastEnd as deallocate reads it (it never does: no handle
\* has the size that indexes one past the end)
PastEndNow == IF pastEnd = << >> THEN BadLevel ELSE pastEnd[1]

Init ==
  /\ fList = [l \in Levels |-> nullptr]
  /\ word = << >>
  /\ brk \in BrkStarts
  /\ regions = << >>
  /\ handles = [h \in HandlesThree |-> EmptyHandle]
  /\ pastEnd = << >>
  /\ status = "running"
  /\ last = NoOp
  /\ rt = NoTrip

\* Allocation a = Allocator::allocate(n), a being the handle object h
Allocate(h, n) ==
  /\ status = "running"
  /\ handles[h] = EmptyHandle
  /\ \E pe \in PastEndChoices(n) :
       LET level == LevelOf(n, pe)
       IN  /\ pastEnd' = PastEndAfter(n, pe)
           /\ IF level \notin Levels
                THEN \* the level indexes fList and levelSize out of range
                     /\ status' = "crashed"
                     /\ last' = [NoOp EXCEPT !.op = "allocate", !.h = h, !.req = n,
                                   !.outcome = "fault", !.level = level,
                                   !.idle = Idle]
                     /\ rt' = NoTrip
                     /\ UNCHANGED <<fList, word, brk, regions, handles>>
                ELSE \E sbrkRet \in SbrkResults :
                     \E res \in {AllocateCore(store, level, sbrkRet)} :
                       LET grown == res.ok /\ res.grew
                       IN  /\ fList' = res.st.fList
                           /\ word' = res.st.word
                           /\ brk' = IF grown THEN brk + maxSize ELSE brk
                           /\ regions' = IF grown THEN Append(regions, sbrkRet)
                                                  ELSE regions
                           /\ handles' = IF res.ok
                                           THEN [handles EXCEPT ![h] = res.alloc]
                                           ELSE handles
                           /\ last' = [NoOp EXCEPT !.op = "allocate", !.h = h,
                                         !.req = n,
                                         !.outcome = IF res.ok THEN "ok" ELSE "bad_alloc",
                                         !.level = level, !.found = res.found,
                                         !.grew = res.grew,
                                         !.sbrk = IF res.grew THEN sbrkRet ELSE 0,
                                         !.idle = Idle,
                                         !.memory = res.alloc.memory,
                                         !.size = res.alloc.size]
                           /\ rt' = IF ~res.ok THEN NoTrip
                                    ELSE IF rt.stage = 2 /\ rt.n = n
                                      THEN [stage |-> 3, n |-> n, addr |-> rt.addr]
                                      ELSE [stage |-> 1, n |-> n,
                                            addr |-> res.alloc.memory]
                           /\ UNCHANGED status

\* handle h's free(), or its destructor: Allocator::deallocate(*this)
Free(h) ==
  /\ status = "running"
  /\ \E res \in {deallocate(store, handles[h], PastEndNow)} :
         /\ fList' = res.st.fList
         /\ word' = res.st.word
         /\ handles' = [handles EXCEPT ![h] = res.alloc]
         /\ status' = IF res.hangs THEN "hung" ELSE status
         /\ last' = [NoOp EXCEPT !.op = "free", !.h = h,
                       !.outcome = IF res.noop THEN "noop"
                                   ELSE IF res.hangs THEN "hang" ELSE "ok",
                       !.level = res.start, !.found = res.lv,
                       !.idle = Idle,
                       !.memory = handles[h].memory, !.size = handles[h].size,
                       !.merges = res.merges]
         /\ rt' = IF rt.stage \in {1, 3} /\ last.h = h /\ ~res.noop /\ ~res.hangs
                    THEN [stage |-> 2, n |-> rt.n, addr |-> handles[h].memory]
                    ELSE NoTrip
  /\ UNCHANGED <<brk, regions, pastEnd>>

\* the move-assignment as a slip would have it: free() is not called, the
\* destination's block is overwritten
MoveAssignNoRelease(d, s) ==
  /\ status = "running"
  /\ LET mem == handles[s].memory
         m1 == [handles EXCEPT ![s].memory = nullptr]
         m2 == [m1 EXCEPT ![d].memory = mem]
         sz == m2[s].size
         s1 == [m2 EXCEPT ![s].size = 0]
         s2 == [s1 EXCEPT ![d].size = sz]
     IN  /\ handles' = s2
         /\ last' = [NoOp EXCEPT !.op = "move", !.h = d, !.src = s,
                       !.idle = Idle,
                       !.memory = handles[d].memory, !.size = handles[d].size]
         /\ rt' = NoTrip
  /\ UNCHANGED <<fList, word, status, brk, regions, pastEnd>>

\* handles[d] = std::move(handles[s])
MoveAssign(d, s) ==
  /\ status = "running"
  /\ \E res \in {deallocate(store, handles[d], PastEndNow)} :
     LET freed == [handles EXCEPT ![d] = res.alloc]
         \* memory = std::exchange(other.memory, nullptr);
         mem == freed[s].memory
         m1 == [freed EXCEPT ![s].memory = nullptr]
         m2 == [m1 EXCEPT ![d].memory = mem]
         \* size = std::exchange(other.size, 0);
         sz == m2[s].size
         s1 == [m2 EXCEPT ![s].size = 0]
         s2 == [s1 EXCEPT ![d].size = sz]
     IN  /\ fList' = res.st.fList
         /\ word' = res.st.word
         /\ handles' = IF res.hangs THEN freed ELSE s2
         /\ status' = IF res.hangs THEN "hung" ELSE status
         /\ last' = [NoOp EXCEPT !.op = "move", !.h = d, !.src = s,
                       !.outcome = IF res.noop THEN "noop"
                                   ELSE IF res.hangs THEN "hang" ELSE "ok",
                       !.level = res.start, !.found = res.lv,
                       !.idle = Idle,
                       !.memory = handles[d].memory, !.size = handles[d].size,
                       !.merges = res.merges]
         /\ rt' = NoTrip
  /\ UNCHANGED <<brk, regions, pastEnd>>

(* ---------------------------------------------------------------------- *)
(* Specifications                                                          *)
(* ---------------------------------------------------------------------- *)
\* NumHandles handle objects, the requests of ReqSizes
Next ==
  \/ \E h \in Handles, n \in ReqSizes : Allocate(h, n)
  \/ \E h \in Handles : Free(h)
  \/ \E d \in Handles, s \in Handles : MoveAssign(d, s)

Spec == Init /\ [][Next]_vars

\* One more handle object, two request sizes
NextThree ==
  \/ \E h \in HandlesThree, n \in ReqSizesThree : Allocate(h, n)
  \/ \E h \in HandlesThree : Free(h)

SpecThree == Init /\ [][NextThree]_vars

\* Misuse: Allocation d{s.memory, s.size}, a second handle object built from
\* the public fields of handle s; nothing in Allocation forbids it
Alias(d, s) ==
  /\ status = "running"
  /\ d # s
  /\ handles[d] = EmptyHandle
  /\ handles[s].memory # nullptr
  /\ handles' = [handles EXCEPT ![d] = handles[s]]
  /\ last' = [NoOp EXCEPT !.op = "alias", !.h = d, !.src = s, !.idle = Idle,
                !.memory = handles[s].memory, !.size = handles[s].size]
  /\ rt' = NoTrip
  /\ UNCHANGED <<fList, word, brk, regions, pastEnd, status>>

\* Every request size 1 .. MaxRequest on the store as constructed: the
\* request is drawn in the initial state, allocated, released and allocated
\* once more.
InitSizes ==
  /\ fList = [l \in Levels |-> nullptr]
  /\ word = << >>
  /\ brk \in BrkStarts
  /\ regions = << >>
  /\ handles = [h \in HandlesThree |-> EmptyHandle]
  /\ pastEnd = << >>
  /\ status = "running"
  /\ \E n \in 1..MaxRequest : last = [NoOp EXCEPT !.req = n]
  /\ rt = NoTrip

NextSizes ==
  \/ /\ last.op = "init"
     /\ Allocate(1, last.req)
  \/ /\ rt.stage = 1
     /\ Free(1)
  \/ /\ rt.stage = 2
     /\ Allocate(1, rt.n)

SpecSizes == InitSizes /\ [][NextSizes]_vars


(* ---------------------------------------------------------------------- *)
(* What the properties speak about                                         *)
(* ---------------------------------------------------------------------- *)
RECURSIVE Chain(_, _)
\* the addresses linked from a, in order, up to the null link or the first
\* address met twice
Chain(a, seen) ==
  IF a = nullptr \/ a \in seen THEN << >>
  ELSE IF a \in DOMAIN word THEN <<a>> \o Chain(word[a], seen \cup {a})
  ELSE <<a>>

ListOf(l) == Chain(fList[l], {})

FreeSet(l) == {ListOf(l)[i] : i \in 1..Len(ListOf(l))}

RECURSIVE EndsInNull(_, _)
\* the links from a reach the null link
EndsInNull(a, seen) ==
  IF a = nullptr THEN TRUE
  ELSE IF a \in seen \/ a \notin DOMAIN word THEN FALSE
  ELSE EndsInNull(word[a], seen \cup {a})

FreeBlocks ==
  UNION {{[kind |-> "free", id |-> l, addr |-> a, size |-> minSize * (2 ^ l)] :
            a \in FreeSet(l)} : l \in Levels}

Owning == {h \in DOMAIN handles : handles[h].memory # nullptr}

HeldBlocks ==
  {[kind |-> "held", id |-> h, addr |-> handles[h].memory,
    size |-> handles[h].size] : h \in Owning}

Blocks == FreeBlocks \cup HeldBlocks

Apart(b, c) == b.addr + b.size <= c.addr \/ c.addr + c.size <= b.addr

LevelSizes == {minSize * (2 ^ i) : i \in Levels}

\* a with the bit s flipped, s a power of two
FlipBit(a, s) == IF (a \div s) % 2 = 1 THEN a - s ELSE a + s

RegionSet == {regions[i] : i \in 1..Len(regions)}

RegionsAligned == \A r \in RegionSet : r % (minSize * (2 ^ (maxLevels - 1))) = 0

\* the smallest configured level size that is >= n
SmallestSufficient(n) ==
  CHOOSE s \in LevelSizes : s >= n /\ \A t \in LevelSizes : t >= n => s <= t

(* ---------------------------------------------------------------------- *)
(* Misuse: second handles for one block                                    *)
(* ---------------------------------------------------------------------- *)
\* the free-list invariant: every list ends in the null link, no block is
\* linked twice, and no two free blocks share a byte
FreeListInvariant ==
  /\ \A l \in Levels :
       /\ EndsInNull(fList[l], {})
       /\ Cardinality(FreeSet(l)) = Len(ListOf(l))
  /\ \A b \in FreeBlocks : \A c \in FreeBlocks : (b # c) => Apart(b, c)

\* The caller may build second handles; the run is followed up to the first
\* state whose free lists are corrupt
NextMisuse ==
  /\ FreeListInvariant
  /\ \/ \E h \in HandlesThree, n \in ReqSizesMisuse : Allocate(h, n)
     \/ \E h \in HandlesThree : Free(h)
     \/ \E d \in HandlesThree, s \in HandlesThree : Alias(d, s)

SpecMisuse == Init /\ [][NextMisuse]_vars

(* ---------------------------------------------------------------------- *)
(* Claims                                                                  *)
(* ---------------------------------------------------------------------- *)

\* C1: for every request n with 0 < n <= maxSize, allocate(n) returns a
\* handle whose size is the smallest level size >= n, at every boundary of
\* the reverse-lookup table, n = maxSize/2 + 1 included.
\* Fails at n = maxSize/2 + 1 = reverseLookup.size(): the test is
\* sz > size(), so the table is read one past its end.
SmallestLevelGranted ==
  (last.op = "allocate" /\ last.req >= 1 /\ last.req <= maxSize
     /\ last.outcome # "bad_alloc")
    => (last.outcome = "ok" /\ last.size = SmallestSufficient(last.req))

\* C2: under valid use the byte ranges of all blocks on all free lists and
\* of all outstanding allocations are pairwise disjoint; no address is on
\* two lists or twice on one list, and every list ends in the null link.
BlocksPairwiseDisjoint ==
  /\ \A l \in Levels :
       /\ EndsInNull(fList[l], {})
       /\ Cardinality(FreeSet(l)) = Len(ListOf(l))
  /\ \A b \in Blocks : \A c \in Blocks : (b # c) => Apart(b, c)

\* C2 witness: two regions, a handle outstanding, a release that merged,
\* and at least three blocks free
DisjointWitness ==
  /\ last.op = "free" /\ Len(last.merges) >= 1
  /\ Len(regions) = 2
  /\ Owning # {}
  /\ Cardinality(FreeBlocks) >= 3

\* C3: every block handed out and every block on the level-k list has an
\* address that is a multiple of levelSize[k], for every start address sbrk
\* may return.
\* Fails when the break is not a multiple of maxSize: allocate uses the
\* value of sbrk(maxSize) as it is.
BlocksAlignedToSize ==
  \A b \in Blocks : b.addr % b.size = 0

\* C4: for every level k < maxLevels-1 the level-k list never holds both an
\* address A and A XOR levelSize[k].
NoFreeBuddyPair ==
  \A l \in 0..(maxLevels - 2) :
    \A a \in FreeSet(l) : FlipBit(a, minSize * (2 ^ l)) \notin FreeSet(l)

\* C4 witness: a release merged twice and then stopped below the top level
\* because the buddy there was not free
CoalesceWitness ==
  /\ last.op = "free" /\ last.outcome = "ok"
  /\ Len(last.merges) >= 2
  /\ last.found < maxLevels - 1
  /\ \E l \in 0..(maxLevels - 2) : Cardinality(FreeSet(l)) >= 1

\* C5: if every heap growth returned a maxSize-aligned region, then in every
\* state with no allocation outstanding the lists of levels 0..maxLevels-2
\* are empty and the top-level list holds exactly the regions grown, one
\* block each; and an allocate(maxSize) made in such a state after at least
\* one growth succeeds without calling sbrk.
QuiescentFullyCoalesced ==
  RegionsAligned =>
    /\ Idle =>
         /\ \A l \in 0..(maxLevels - 2) : fList[l] = nullptr
         /\ FreeSet(maxLevels - 1) = RegionSet
         /\ Len(ListOf(maxLevels - 1)) = Len(regions)
    /\ (/\ last.op = "allocate" /\ last.idle /\ last.req = maxSize
        /\ Len(regions) - (IF last.outcome = "ok" /\ last.grew THEN 1 ELSE 0) >= 1)
         => (last.outcome = "ok" /\ ~last.grew)

\* C5 witness: two aligned regions, everything released, and allocate(maxSize)
\* served from the top-level list
QuiescentWitness ==
  /\ RegionsAligned /\ Len(regions) >= 2
  /\ last.op = "allocate" /\ last.idle /\ last.req = maxSize
  /\ last.outcome = "ok" /\ ~last.grew

\* C6: h1 = allocate(n); deallocate(h1); h2 = allocate(n) with nothing in
\* between gives h2.memory = the address h1 held, and the second allocate
\* does not call sbrk.
RoundTripReuse ==
  (rt.stage = 3) =>
    (last.outcome = "ok" /\ last.memory = rt.addr /\ ~last.grew)

\* C6 witness: a round trip whose allocations split a larger block while
\* another handle owns a block
RoundTripWitness ==
  /\ rt.stage = 3
  /\ last.found > last.level
  /\ ~last.idle

\* the blocks a and b of level k are the two halves of one level-(k+1) block
\* of the halving tree of one region sbrk returned
TrueBuddies(a, b, k) ==
  \E r \in RegionSet :
    /\ r <= a /\ a < r + maxSize
    /\ r <= b /\ b < r + maxSize
    /\ a # b
    /\ (a - r) % (minSize * (2 ^ k)) = 0
    /\ (b - r) % (minSize * (2 ^ k)) = 0
    /\ (a - r) \div (minSize * (2 ^ (k + 1))) = (b - r) \div (minSize * (2 ^ (k + 1)))

\* C7: every merge deallocate performs at level k combines the released
\* block with its true buddy, the other half of the same level-(k+1) block
\* of the same region, for any addresses returned by heap growth.
\* Fails when the break is not a multiple of maxSize (see C3): the XOR then
\* names a neighbour that is not the other half.
MergesOnlyTrueBuddies ==
  (last.op \in {"free", "move"}) =>
    \A i \in 1..Len(last.merges) :
      TrueBuddies(last.merges[i].block, last.merges[i].buddy, last.merges[i].lv)

\* C8: for every requestedBytes > 0, requests larger than maxSize included,
\* a successful allocate returns a handle whose size is >= requestedBytes
\* and is one of the level sizes.
\* Fails for requests above maxSize: they are given a maxSize block.
GrantedCoversRequest ==
  (last.op = "allocate" /\ last.outcome = "ok" /\ last.req > 0)
    => (last.size >= last.req /\ last.size \in LevelSizes)

\* C9: allocate fails exactly when no list of levels target..maxLevels-1
\* holds a block and sbrk returns -1; a failed allocate leaves every list
\* as it was and produces no handle; deallocate never fails.
AllocateStep ==
  (last'.op = "allocate" /\ last'.outcome # "fault") =>
    /\ (last'.outcome = "bad_alloc")
         <=> (/\ \A l \in (last'.level)..(maxLevels - 1) : fList[l] = nullptr
              /\ last'.sbrk = SbrkFailed)
    /\ (last'.outcome = "bad_alloc")
         => (/\ fList' = fList /\ word' = word
             /\ handles' = handles /\ brk' = brk /\ regions' = regions)

ReleaseStep ==
  (last'.op \in {"free", "move"}) => (last'.outcome \in {"ok", "noop"})

FailureAtomic == [][AllocateStep /\ ReleaseStep]_vars

\* C9 witness: an allocate failed while lower lists held blocks and a
\* handle owned one
FailureWitness ==
  /\ last.op = "allocate" /\ last.outcome = "bad_alloc"
  /\ \E l \in Levels : fList[l] # nullptr
  /\ Owning # {}

\* C10: deallocate on a handle that owns a block puts the block (possibly
\* merged) on the free lists and leaves the handle {null, 0}; a release of
\* an empty handle changes no list and no handle.
FreeStep ==
  (last'.op = "free") =>
    IF handles[last'.h].memory = nullptr
      THEN /\ last'.outcome = "noop"
           /\ fList' = fList /\ word' = word /\ handles' = handles
      ELSE /\ last'.outcome = "ok"
           /\ handles' = [handles EXCEPT ![last'.h] = EmptyHandle]
           /\ \E b \in FreeBlocks' :
                /\ b.addr <= handles[last'.h].memory
                /\ handles[last'.h].memory + handles[last'.h].size
                     <= b.addr + b.size
           /\ \A l \in Levels : Cardinality(FreeSet(l)') = Len(ListOf(l)')

ReleasedExactlyOnce == [][FreeStep]_vars

\* C10 witness: a release of an empty handle while the lists hold blocks
\* and another handle owns one
ReleaseWitness ==
  /\ last.op = "free" /\ last.outcome = "noop"
  /\ \E l \in Levels : fList[l] # nullptr
  /\ Owning # {}

\* the bytes of the block [memory, size] lie inside one block of the set bs
Inside(alloc, bs) ==
  \E b \in bs : b.addr <= alloc.memory /\ alloc.memory + alloc.size <= b.addr + b.size

\* no block of the set bs shares a byte with the block [memory, size]
Outside(alloc, bs) ==
  \A b \in bs : Apart([addr |-> alloc.memory, size |-> alloc.size], b)

\* C11: dst = move(src) releases the block dst owned (if any), makes dst own
\* exactly the block and size src owned and leaves src {null, 0}; afterwards
\* the block dst gave up is on the free lists and owned by no handle, the
\* block src gave up is owned by dst alone and is on no list.  A self-move
\* leaves the handle empty with its block released once.
MoveStep ==
  (last'.op = "move") =>
    LET d == last'.h
        s == last'.src
        old == handles[d]
        taken == handles[s]
    IN  /\ last'.outcome \in {"ok", "noop"}
        /\ \A l \in Levels : /\ EndsInNull(fList[l], {})'
                             /\ Cardinality(FreeSet(l)') = Len(ListOf(l)')
        /\ IF old.memory = nullptr
             THEN fList' = fList /\ word' = word
             ELSE /\ Inside(old, FreeBlocks')
                  /\ Outside(old, HeldBlocks')
        /\ IF d = s
             THEN handles' = [handles EXCEPT ![d] = EmptyHandle]
             ELSE /\ handles' = [handles EXCEPT ![d] = taken, ![s] = EmptyHandle]
                  /\ (taken.memory # nullptr) =>
                       /\ Outside(taken, FreeBlocks')
                       /\ {h \in Owning' : handles'[h].memory = taken.memory} = {d}

MoveReleasesThenTakes == [][MoveStep]_vars

\* C11 witness: a move between two different handles that both owned a
\* block; the destination's block was released and merged with its buddy
MoveWitness ==
  /\ last.op = "move" /\ last.h # last.src /\ last.outcome = "ok"
  /\ last.memory # nullptr /\ Len(last.merges) >= 1
  /\ handles[last.h].memory # nullptr
  /\ handles[last.src] = EmptyHandle

\* the levels from target up whose list holds a block
NonEmptyFrom(target) == {l \in target..(maxLevels - 1) : fList[l] # nullptr}

\* C12: with target the level of the request, allocate removes the head of
\* the list of the lowest non-empty level in target..maxLevels-1; sbrk is
\* called only when all those lists are empty, at most once, and a
\* successful call moves the break by exactly maxSize and gives one block of
\* level maxLevels-1 that starts at the previous break.
SelectionStep ==
  (last'.op = "allocate" /\ last'.outcome # "fault") =>
    LET target == last'.level
        cand == NonEmptyFrom(target)
    IN  IF cand # {}
          THEN LET found == CHOOSE l \in cand : \A k \in cand : l <= k
               IN  /\ last'.outcome = "ok" /\ ~last'.grew
                   /\ last'.found = found
                   /\ last'.memory = fList[found]
                   /\ \A l \in Levels :
                        (l = found) => ListOf(l) = <<fList[l]>> \o ListOf(l)'
                   /\ brk' = brk /\ regions' = regions
          ELSE /\ last'.grew
               /\ last'.found = maxLevels - 1
               /\ IF last'.outcome = "ok"
                    THEN /\ brk' = brk + maxSize
                         /\ regions' = Append(regions, brk)
                         /\ last'.memory = brk
                         /\ last'.sbrk = brk
                    ELSE /\ last'.outcome = "bad_alloc"
                         /\ brk' = brk /\ regions' = regions

LowestNonEmptyTaken == [][SelectionStep]_vars

\* C12 witness: an allocate took the head of a list above its target while
\* a list further up held a block too
SelectionWitness ==
  /\ last.op = "allocate" /\ last.outcome = "ok" /\ ~last.grew
  /\ last.found > last.level
  /\ \E l \in Levels : l > last.found /\ fList[l] # nullptr

\* C13: when the block taken or grown has base B at level found > target,
\* allocate inserts exactly one block into each list of levels
\* target..found-1, the address B + levelSize[j] at level j, returns the
\* handle {B, levelSize[target]} and leaves every list of level < target or
\* > found unchanged; when found = target no list receives an insertion.
SplitStep ==
  (last'.op = "allocate" /\ last'.outcome = "ok") =>
    LET target == last'.level
        found == last'.found
        B == last'.memory
    IN  /\ handles' = [handles EXCEPT
                         ![last'.h] = [memory |-> B, size |-> minSize * (2 ^ target)]]
        /\ \A j \in Levels :
             /\ (target <= j /\ j < found) =>
                  /\ ListOf(j)' = <<B + minSize * (2 ^ j)>> \o ListOf(j)
                  /\ fList'[j] = B + minSize * (2 ^ j)
             /\ (j < target \/ j > found) =>
                  /\ ListOf(j)' = ListOf(j)
                  /\ fList'[j] = fList[j]
             /\ (j = found) =>
                  /\ FreeSet(j)' \subseteq FreeSet(j)
                  /\ Len(ListOf(j)') <= Len(ListOf(j))

SplitInsertsUpperHalves == [][SplitStep]_vars

\* C13 witness: an allocate took a block from a list at least two levels
\* above its target and split it, while a list outside target..found held
\* a block and another handle owned one
SplitWitness ==
  /\ last.op = "allocate" /\ last.outcome = "ok" /\ ~last.grew
  /\ last.found >= last.level + 2
  /\ \E l \in Levels : (l < last.level \/ l > last.found) /\ fList[l] # nullptr
  /\ Cardinality(Owning) >= 2

\* the level whose size is sz
LevelWithSize(sz) == CHOOSE l \in Levels : minSize * (2 ^ l) = sz

\* the sequence s without its elements that are in the set gone
RECURSIVE Without(_, _)
Without(s, gone) ==
  IF s = << >> THEN << >>
  ELSE IF Head(s) \in gone THEN Without(Tail(s), gone)
  ELSE <<Head(s)>> \o Without(Tail(s), gone)

\* C14: if block XOR levelSize[level] is not on the list of the block's
\* level, deallocate merges nothing, pushes the block unchanged as the new
\* head of that list and leaves the rest of that list and every other list
\* untouched; a deallocate that merges up to level m changes only the lists
\* of levels level..m (each list below m loses the buddy merged there, the
\* list of m gets one new head).
NoMergeStep ==
  (last'.op \in {"free", "move"} /\ handles[last'.h].memory # nullptr) =>
    LET old == handles[last'.h]
        lv == LevelWithSize(old.size)
        buddy == FlipBit(old.memory, old.size)
        m == last'.found
        gone == {last'.merges[i].buddy : i \in 1..Len(last'.merges)}
    IN  /\ (buddy \notin FreeSet(lv)) =>
             /\ last'.merges = << >>
             /\ m = lv
             /\ fList'[lv] = old.memory
        /\ m = lv + Len(last'.merges)
        /\ \A j \in Levels :
             /\ (j < lv \/ j > m) => (ListOf(j)' = ListOf(j) /\ fList'[j] = fList[j])
             /\ (lv <= j /\ j < m) =>
                  /\ ListOf(j)' = Without(ListOf(j), gone)
                  /\ Len(ListOf(j)') = Len(ListOf(j)) - 1
             /\ (j = m) =>
                  /\ Len(ListOf(j)') = Len(ListOf(j)) + 1
                  /\ Tail(ListOf(j)') = ListOf(j)

UnmergedPushedAsHead == [][NoMergeStep]_vars

\* C14 witness: a block below the top level was released while its buddy
\* was not free; it became the head of a list that already held a block
UnmergedWitness ==
  /\ last.op = "free" /\ last.outcome = "ok"
  /\ last.merges = << >> /\ last.found < maxLevels - 1
  /\ Len(ListOf(last.found)) >= 2
  /\ fList[last.found] = last.memory
  /\ \E l \in Levels : l # last.found /\ fList[l] # nullptr

\* the smaller of two addresses
Lower(a, b) == IF a <= b THEN a ELSE b

\* every handle's size is a level size (or 0 when it owns nothing), every
\* list belongs to a level, and a block on the level-k list, taken with the
\* size of level k, lies inside the heap sbrk has grown
SizesConfigured ==
  /\ DOMAIN fList = Levels
  /\ \A h \in DOMAIN handles :
       IF handles[h].memory = nullptr THEN handles[h].size = 0
                                      ELSE handles[h].size \in LevelSizes
  /\ \A b \in FreeBlocks :
       /\ b.size <= minSize * (2 ^ (maxLevels - 1))
       /\ regions # << >>
       /\ regions[1] <= b.addr /\ b.addr + b.size <= brk

\* each merge of a release is made below the top level, goes one level up,
\* and the block it yields is the lower of the two addresses
MergeStep ==
  (last'.op \in {"free", "move"} /\ handles[last'.h].memory # nullptr) =>
    LET ms == last'.merges
        start == LevelWithSize(handles[last'.h].size)
    IN  /\ last'.found = start + Len(ms)
        /\ last'.found <= maxLevels - 1
        /\ (handles[last'.h].size = minSize * (2 ^ (maxLevels - 1))) => ms = << >>
        /\ \A i \in 1..Len(ms) :
             /\ ms[i].lv = start + i - 1
             /\ ms[i].lv < maxLevels - 1
             /\ ms[i].buddy = FlipBit(ms[i].block, minSize * (2 ^ ms[i].lv))
             /\ LET merged == Lower(ms[i].block, ms[i].buddy)
                IN  IF i < Len(ms) THEN ms[i + 1].block = merged
                                   ELSE fList'[last'.found] = merged

\* C15: every block on the level-k list has size levelSize[k] with
\* 0 <= k < maxLevels and every outstanding handle's size is a level size;
\* a merge at level k yields one block at level k+1 at the lower of the two
\* addresses; a block of size maxSize is never merged further.
OnlyConfiguredSizes == []SizesConfigured /\ [][MergeStep]_vars

\* C15 witness: a maxSize block was released while the region at its
\* address XOR maxSize was free on the top-level list; they did not merge
TopNotMergedWitness ==
  /\ last.op = "free" /\ last.outcome = "ok" /\ last.size = maxSize
  /\ last.merges = << >>
  /\ FlipBit(last.memory, maxSize) \in FreeSet(maxLevels - 1)
  /\ last.memory \in FreeSet(maxLevels - 1)

\* C16: for every level i, deallocate maps a handle whose size is
\* levelSize[i] to level i exactly, the two highest levels included (2048 is
\* the last index of the table, 4096 lies beyond it); the buddy search and
\* the final insertion use the lists from the block's own level on.
LevelRecoveryStep ==
  (last'.op \in {"free", "move"} /\ handles[last'.h].memory # nullptr) =>
    LET old == handles[last'.h]
    IN  /\ old.size \in LevelSizes
        /\ last'.level = LevelWithSize(old.size)
        /\ pastEnd' = pastEnd
        /\ \A i \in 1..Len(last'.merges) :
             last'.merges[i].lv = LevelWithSize(old.size) + i - 1
        /\ \E b \in FreeBlocks' :
             /\ b.id = LevelWithSize(old.size) + Len(last'.merges)
             /\ b.addr <= old.memory
             /\ old.memory + old.size <= b.addr + b.size

LevelRecovered == [][LevelRecoveryStep]_vars

\* C16 witness: a block of size maxSize/2, the last index of the table, was
\* released at level maxLevels-2 and merged from there
LevelRecoveryWitness ==
  /\ last.op = "free" /\ last.outcome = "ok"
  /\ last.size = maxSize \div 2
  /\ last.level = maxLevels - 2
  /\ Len(last.merges) = 1 /\ last.merges[1].lv = maxLevels - 2

RECURSIVE FreeBytesFrom(_)
\* the bytes on the lists of levels l..maxLevels-1, every linked node counted
FreeBytesFrom(l) ==
  IF l >= maxLevels THEN 0
  ELSE Len(ListOf(l)) * minSize * (2 ^ l) + FreeBytesFrom(l + 1)

RECURSIVE HeldBytesFrom(_)
\* the bytes owned by the handles h, h+1, ...
HeldBytesFrom(h) ==
  IF h \notin DOMAIN handles THEN 0
  ELSE (IF handles[h].memory = nullptr THEN 0 ELSE handles[h].size)
         + HeldBytesFrom(h + 1)

\* C17: under valid use the sizes of all blocks on all free lists plus the
\* sizes of all outstanding handles add up to maxSize times the number of
\* successful heap growths; the break only ever moves up, by maxSize per
\* growth.
BytesConserved ==
  /\ FreeBytesFrom(0) + HeldBytesFrom(1)
       = minSize * (2 ^ (maxLevels - 1)) * Len(regions)
  /\ \A i \in 1..Len(regions) :
       regions[i] = regions[1] + (i - 1) * minSize * (2 ^ (maxLevels - 1))
  /\ (regions # << >>) =>
       brk = regions[1] + Len(regions) * minSize * (2 ^ (maxLevels - 1))

\* C17 witness: two regions grown, two handles own blocks of different
\* sizes, blocks are free on at least two levels, and the last allocate
\* split a block
ConservationWitness ==
  /\ Len(regions) = 2
  /\ Cardinality(Owning) = 2
  /\ \E g \in Owning, h \in Owning : handles[g].size # handles[h].size
  /\ Cardinality({l \in Levels : fList[l] # nullptr}) >= 2
  /\ last.op = "allocate" /\ last.outcome = "ok" /\ last.found > last.level

\* every list is finite and ends in the null link, and no scan has run
\* round a cycle
ListsAcyclic ==
  /\ status # "hung"
  /\ \A l \in Levels : EndsInNull(fList[l], {})

RECURSIVE NodesFrom(_)
\* the number of nodes linked on the lists of levels l..maxLevels-1
NodesFrom(l) ==
  IF l >= maxLevels THEN 0 ELSE Len(ListOf(l)) + NodesFrom(l + 1)

\* an allocate scans at most maxLevels lists and makes at most maxLevels-1
\* insertions; a release makes at most maxLevels-1 merges, one list scanned
\* for each, and ends
BoundedStep ==
  /\ (last'.op = "allocate" /\ last'.outcome # "fault") =>
       /\ 0 <= last'.level /\ last'.level <= last'.found
       /\ last'.found <= maxLevels - 1
       /\ last'.found - last'.level + 1 <= maxLevels
       /\ NodesFrom(0)' - NodesFrom(0) <= maxLevels - 1
       /\ (last'.outcome = "ok") =>
            NodesFrom(0)' - NodesFrom(0)
              = last'.found - last'.level - (IF last'.grew THEN 0 ELSE 1)
  /\ (last'.op \in {"free", "move"}) =>
       /\ last'.outcome # "hang"
       /\ Len(last'.merges) <= maxLevels - 1
       /\ (last'.outcome = "ok") =>
            NodesFrom(0)' = NodesFrom(0) + 1 - Len(last'.merges)

\* C18: every operation ends: an allocate makes at most maxLevels-1 splits
\* after a scan of at most maxLevels lists, a deallocate at most maxLevels-1
\* merges, each after a scan of one list that ends because every list is
\* finite and ends in the null link.
OperationsBounded == []ListsAcyclic /\ [][BoundedStep]_vars

\* C18 witness: a release merged maxLevels-1 times, once at every level
\* below the top, while a second region was free on the top-level list
BoundedWitness ==
  /\ last.op = "free" /\ last.outcome = "ok"
  /\ Len(last.merges) = maxLevels - 1
  /\ Len(ListOf(maxLevels - 1)) = 2

\* C19: a deallocate through a second handle that carries the address and
\* size of a block already released (its bytes are free, the lists are in
\* order) completes without any error, empties the handle, and leaves the
\* free lists corrupt: the block is linked twice so that its list is
\* cyclic, or it is free both on its own and inside a larger free block.
DoubleFreeStep ==
  (/\ last'.op = "free"
   /\ handles[last'.h].memory # nullptr
   /\ FreeListInvariant
   /\ Inside(handles[last'.h], FreeBlocks)) =>
    /\ last'.outcome = "ok"
    /\ status' = "running"
    /\ handles'[last'.h] = EmptyHandle
    /\ ~FreeListInvariant'
    /\ \/ \E l \in Levels : ~EndsInNull(fList[l], {})'
       \/ \E b \in FreeBlocks' : \E c \in FreeBlocks' :
            /\ b # c /\ ~Apart(b, c)
            /\ b.addr <= handles[last'.h].memory
            /\ handles[last'.h].memory < b.addr + b.size

DoubleFreeCorrupts == [][DoubleFreeStep]_vars

\* C19 witness: after the second release the block is on the list of its
\* own level and lies inside a larger free block that a merge produced
DoubleFreeWitness ==
  /\ last.op = "free" /\ last.outcome = "ok" /\ status = "running"
  /\ last.memory \in FreeSet(last.level)
  /\ \E c \in FreeBlocks :
       /\ c.size > last.size
       /\ c.addr <= last.memory /\ last.memory + last.size <= c.addr + c.size
  /\ Owning # {}

====
